---- MODULE Spec2Model ----
(***************************************************************************)
(* Model of mappings_manager.py: the mapping store kept in mappings.yaml,  *)
(* its fallback to and migration from config.yaml, and the public          *)
(* operations load_mappings, save_mappings, add_plex_mapping,              *)
(* add_title_mapping, migrate_mappings_from_config, get_mappings and       *)
(* get_plex_name.  Every file access of the code is one step of the        *)
(* calling process, so that the points between two file accesses are       *)
(* states of the model.                                                    *)
(***************************************************************************)
EXTENDS Integers, Sequences, FiniteSets, TLC

VARIABLES
    mf,         \* MAPPINGS_FILE: [exists, text]
    cf,         \* CONFIG_FILE:   [exists, text]
    pc,         \* pc[p]: the place of process p in its operation
    op,         \* op[p]: the public operation p runs, with its arguments
    doc,        \* doc[p]: the local `mappings` of the running function
    cfg,        \* cfg[p]: the local `config` of save_mappings
    mig,        \* mig[p]: save_mappings' migrate_from_config argument
    ctx,        \* ctx[p]: who called save_mappings: "load" or "top"
    ret,        \* ret[p]: what the operation returned
    fl,         \* fl[p]: the I/O failures injected into the running operation
    pre,        \* pre[p]: both files as they were when the operation started
    opsLeft,    \* opsLeft[p]: operations p may still start
    faultsLeft, \* I/O failures that may still be injected
    hist,       \* the last two completed operations, oldest first
    written,    \* (show, episode) -> title of the add_title_mapping calls that returned True
    overlap     \* TRUE once an operation started while another one was running

vars == <<mf, cf, pc, op, doc, cfg, mig, ctx, ret, fl, pre, opsLeft, faultsLeft,
          hist, written, overlap>>

(* ------------------------------ bounds -------------------------------- *)

\* operations of the one caller of Spec, which may call anything
MaxOps == 2
\* operations of the one caller of SpecTitle, SpecSave and SpecMigrate
MaxTitleOps == 3
MaxSaveOps == 3
MaxMigrateOps == 2
\* operations of each of the two processes of the concurrent specification
MaxConcOps == 1
\* I/O failures injected in one run
MaxFaults == 1

Procs == {1, 2}

(* ------------------------- YAML values -------------------------------- *)
(* A value as yaml.safe_load returns it: None, a string, or a dict.        *)

Null == [t |-> "null"]

Str(s) == [t |-> "str", s |-> s]

Map(f) == [t |-> "map", m |-> f]

Bool(b) == [t |-> "bool", b |-> b]

True == Bool(TRUE)

False == Bool(FALSE)

NoEntries == [k \in {} |-> Null]

EmptyMap == Map(NoEntries)

IsMap(v) == v.t = "map"

\* d[k] = v on a dict
Put(f, k, v) == [x \in DOMAIN f \cup {k} |-> IF x = k THEN v ELSE f[x]]

\* `k in v` for a dict v
HasKey(v, k) == k \in DOMAIN v.m

Sections == {"mappings", "trakt_mappings", "title_mappings"}

(* ------------------------- YAML text ---------------------------------- *)
(* yaml.dump writes a dict as its items in sorted key order               *)
(* (sort_keys=True is the default); yaml.safe_load rebuilds the dict from  *)
(* the items, reads a zero-length file as None and raises on text that is  *)
(* not YAML.                                                               *)

\* Every key of the model's universe, in the order Python sorts strings.
KeyOrder == <<"Bleach", "Ep 1", "Ep 2", "Naruto", "mappings", "naruto",
              "one-piece", "plex_url", "special_matches", "title_mappings",
              "trakt_mappings">>

SortedKeys(S) == SelectSeq(KeyOrder, LAMBDA k : k \in S)

Empty == [y |-> "empty"]

Garbage == [y |-> "garbage"]

\* a file: whether it exists, and its text
Absent == [exists |-> FALSE, text |-> Empty]

File(x) == [exists |-> TRUE, text |-> x]

RECURSIVE Dump(_)
Dump(v) ==
    IF v.t = "map"
    THEN LET keys == SortedKeys(DOMAIN v.m)
         IN  [y |-> "map",
              items |-> [i \in 1..Len(keys) |->
                            [key |-> keys[i], node |-> Dump(v.m[keys[i]])]]]
    ELSE IF v.t = "str" THEN [y |-> "str", scalar |-> v.s]
    ELSE [y |-> "null"]

RECURSIVE SafeLoadNode(_)
SafeLoadNode(x) ==
    IF x.y = "map"
    THEN LET keys == {x.items[i].key : i \in DOMAIN x.items}
             \* a repeated key keeps its last value
             last(k) == CHOOSE i \in DOMAIN x.items :
                           /\ x.items[i].key = k
                           /\ \A j \in DOMAIN x.items : x.items[j].key = k => j <= i
         IN  Map([k \in keys |-> SafeLoadNode(x.items[last(k)].node)])
    ELSE IF x.y = "str" THEN Str(x.scalar)
    ELSE Null

\* a file just opened with 'w'
Truncated == File(Empty)

\* yaml.safe_load raises on this text
ParseFails(text) == text.y = "garbage"

\* what yaml.safe_load returns when it does not raise
SafeLoad(text) == IF text.y = "empty" THEN Null ELSE SafeLoadNode(text)


(* ---------------------- the code's pure steps -------------------------- *)

\* What load_mappings returns when both files fail it.
DefaultMappings == Map([k \in Sections |-> EmptyMap])

\* load_mappings on the parsed mappings file raises (and falls back to the
\* config) unless the document is a dict: `'mappings' not in None` is a TypeError.
LoadFileRaises(d) == ~IsMap(d)

\* the sections set to {} whether present or not
BackfillUnconditional(d) ==
    Map([k \in DOMAIN d.m \cup Sections |-> IF k \in Sections THEN EmptyMap ELSE d.m[k]])

\* A section is added only when its key is missing; a key stored with a null
\* value is left as it is.
Backfill(d) ==
    Map([k \in DOMAIN d.m \cup Sections |-> IF k \in DOMAIN d.m THEN d.m[k] ELSE EmptyMap])

\* config.get(section, {}) for the three sections: the default is used only
\* for a missing key.
Extract(c) ==
    Map([k \in Sections |-> IF k \in DOMAIN c.m THEN c.m[k] ELSE EmptyMap])

\* del config[section] for each section present.
Strip(c) == Map([k \in DOMAIN c.m \ Sections |-> c.m[k]])

\* save_mappings' result when its write of the mappings file raised.
RetAfterWriteError == FALSE

\* the config's failure reported as the save's
RetAfterConfigErrorFalse == FALSE

\* save_mappings' result when the update of the config raised: the inner
\* except logs, and the function goes on to return True.
RetAfterConfigError == TRUE

\* add_plex_mapping: mappings['mappings'][afl_name] = plex_name raises on a
\* section that is not a dict.
PlexSection(d) == IF HasKey(d, "mappings") THEN d.m["mappings"] ELSE EmptyMap

PlexRaises(d) == ~IsMap(PlexSection(d))

\* the section replaced by the new entry alone
PlexApplyReplacing(d, k, v) ==
    Map(Put(d.m, "mappings", Map(k :> Str(v))))

PlexApply(d, k, v) ==
    Map(Put(d.m, "mappings", Map(Put(PlexSection(d).m, k, Str(v)))))

\* add_title_mapping: title_mappings and special_matches are replaced by {}
\* when missing or None; the show's entry only when missing.
TitleSection(d) ==
    IF ~HasKey(d, "title_mappings") \/ d.m["title_mappings"].t = "null"
    THEN EmptyMap ELSE d.m["title_mappings"]

ShowEntry(tm, show) == IF HasKey(tm, show) THEN tm.m[show] ELSE EmptyMap

SpecialMatches(entry) ==
    IF ~HasKey(entry, "special_matches") \/ entry.m["special_matches"].t = "null"
    THEN EmptyMap ELSE entry.m["special_matches"]

TitleRaises(d, show) ==
    \/ ~IsMap(TitleSection(d))
    \/ ~IsMap(ShowEntry(TitleSection(d), show))
    \/ ~IsMap(SpecialMatches(ShowEntry(TitleSection(d), show)))

\* special_matches replaced by the new entry alone
TitleApplyReplacing(d, show, ep, title) ==
    LET tm    == TitleSection(d)
        entry == ShowEntry(tm, show)
        sm    == Map(ep :> Str(title))
    IN  Map(Put(d.m, "title_mappings",
                Map(Put(tm.m, show, Map(Put(entry.m, "special_matches", sm))))))

TitleApply(d, show, ep, title) ==
    LET tm    == TitleSection(d)
        entry == ShowEntry(tm, show)
        sm    == Map(Put(SpecialMatches(entry).m, ep, Str(title)))
    IN  Map(Put(d.m, "title_mappings",
                Map(Put(tm.m, show, Map(Put(entry.m, "special_matches", sm))))))

\* get_plex_name: mappings.get('mappings', {}).get(afl_name, afl_name), then
\* `'-' in plex_name`.
Hyphenated == {"one-piece"}

TitleCased == [s \in Hyphenated |-> "One Piece"]

PlexLookup(d, k) ==
    IF HasKey(PlexSection(d), k) THEN PlexSection(d).m[k] ELSE Str(k)

GetPlexRaises(d, k) ==
    \/ ~IsMap(PlexSection(d))          \* None has no .get
    \/ PlexLookup(d, k).t # "str"      \* `'-' in None`

GetPlexName(d, k) ==
    LET name == PlexLookup(d, k).s
    IN  Str(IF name \in Hyphenated THEN TitleCased[name] ELSE name)

(* ------------------------ the files at the start ----------------------- *)

Ids == {"one-piece", "naruto"}

\* (show, episode) arguments of add_title_mapping
TitleArgs == {<<"Naruto", "Ep 1">>, <<"Naruto", "Ep 2">>, <<"Bleach", "Ep 1">>}

OldPlex == Map("one-piece" :> Str("Old Name"))

OldTitles == Map("Naruto" :> Map("special_matches" :> Map("Ep 1" :> Str("Old Title"))))

Doc(plex, trakt, titles) ==
    Map([k \in Sections |-> IF k = "mappings" THEN plex
                            ELSE IF k = "trakt_mappings" THEN trakt ELSE titles])

\* a complete document with entries
FullDoc == Doc(OldPlex, Map("one-piece" :> Str("naruto")), OldTitles)

FullFile == File(Dump(FullDoc))

\* Documents a mappings file may hold: complete, every section null, two
\* sections missing, and a show whose entry is null, lacks special_matches or
\* has it null.
StoredDocs ==
    { FullDoc,
      Doc(Null, Null, Null),
      Map("mappings" :> OldPlex),
      Doc(EmptyMap, EmptyMap, Map("Naruto" :> Null)),
      Doc(EmptyMap, EmptyMap, Map("Naruto" :> EmptyMap)),
      Doc(EmptyMap, EmptyMap, Map("Naruto" :> Map("special_matches" :> Null))) }

MappingsFiles ==
    {Absent, File(Empty), File(Garbage)} \cup {File(Dump(d)) : d \in StoredDocs}

Setting == "plex_url" :> Str("Old Name")

\* a config that still carries the three sections beside its own key
LegacyConfig == Map(Setting @@ FullDoc.m)

ConfigFiles ==
    { Absent, File(Empty), File(Garbage),
      File(Dump(Map(Setting))),
      File(Dump(LegacyConfig)),
      File(Dump(Map(Setting @@ ("mappings" :> Null)))) }

\* Every mappings file with a legacy or a migrated config, and every config
\* with a mappings file that is absent or unreadable.
StartFiles ==
    (MappingsFiles \X {File(Dump(LegacyConfig)), File(Dump(Map(Setting)))})
        \cup ({Absent, File(Garbage)} \X ConfigFiles)

\* what a caller hands to save_mappings
SaveDocs == {FullDoc, Map("mappings" :> OldPlex)}

NoArg == "-"

\* an operation and its arguments: an id or a show, an episode, a name or a
\* title, a document, the migrate flag
Op(n, a1, a2, a3, a4, a5) ==
    [name |-> n, id |-> a1, episode |-> a2, val |-> a3, arg |-> a4, migrate |-> a5]

NoOp == Op("none", NoArg, NoArg, NoArg, Null, FALSE)

NoRet == [t |-> "none"]

Raised == [t |-> "raised"]

NoWrites == [x \in {} |-> NoArg]

\* the files two concurrent callers start from
ConcFiles ==
    {Absent, File(Dump(FullDoc)), File(Dump(Map("mappings" :> OldPlex)))}
        \X {Absent, File(Dump(LegacyConfig))}

InitFrom(start, faults) ==
    /\ \E files \in start : mf = files[1] /\ cf = files[2]
    /\ pc = [p \in Procs |-> "idle"]
    /\ op = [p \in Procs |-> NoOp]
    /\ doc = [p \in Procs |-> Null]
    /\ cfg = [p \in Procs |-> Null]
    /\ mig = [p \in Procs |-> FALSE]
    /\ ctx = [p \in Procs |-> "top"]
    /\ ret = [p \in Procs |-> NoRet]
    /\ fl = [p \in Procs |-> {}]
    /\ pre = [p \in Procs |-> [mf |-> mf, cf |-> cf]]
    /\ faultsLeft = faults
    /\ hist = <<>>
    /\ written = NoWrites
    /\ overlap = FALSE

\* one caller, n operations one after the other
Sequential(n) == opsLeft = [p \in Procs |-> IF p = 1 THEN n ELSE 0]

Init == InitFrom(StartFiles, MaxFaults) /\ Sequential(MaxOps)

InitTitle == InitFrom(StartFiles, MaxFaults) /\ Sequential(MaxTitleOps)

InitSave == InitFrom(StartFiles, MaxFaults) /\ Sequential(MaxSaveOps)

InitMigrate == InitFrom(StartFiles, MaxFaults) /\ Sequential(MaxMigrateOps)

\* two callers, no I/O failure
InitConc == InitFrom(ConcFiles, 0) /\ opsLeft = [p \in Procs |-> MaxConcOps]

(* ----------------------------- the steps ------------------------------ *)

Running(q) == pc[q] \notin {"idle", "done", "raised"}

FaultChoices == IF faultsLeft > 0 THEN {TRUE, FALSE} ELSE {FALSE}

\* an injected failure f of the given kind
Fault(p, f, kind) ==
    /\ faultsLeft' = IF f THEN faultsLeft - 1 ELSE faultsLeft
    /\ fl' = [fl EXCEPT ![p] = IF f THEN @ \cup {kind} ELSE @]

NoFault == UNCHANGED <<faultsLeft, fl>>

Locals(p, npc, ndoc, ncfg, nmig, nctx, nret) ==
    /\ pc' = [pc EXCEPT ![p] = npc]
    /\ doc' = [doc EXCEPT ![p] = ndoc]
    /\ cfg' = [cfg EXCEPT ![p] = ncfg]
    /\ mig' = [mig EXCEPT ![p] = nmig]
    /\ ctx' = [ctx EXCEPT ![p] = nctx]
    /\ ret' = [ret EXCEPT ![p] = nret]

Goto(p, npc) == Locals(p, npc, doc[p], cfg[p], mig[p], ctx[p], ret[p])

\* save_mappings returns r: to load_mappings, which ignores r and returns its
\* mappings, or to the caller of the operation
SaveReturns(p, r) ==
    IF ctx[p] = "load"
    THEN Goto(p, "apply")
    ELSE Locals(p, "done", doc[p], cfg[p], mig[p], ctx[p], Bool(r))

Ghosts == <<op, pre, opsLeft, hist, written, overlap>>

\* a caller starts operation o at place npc
Start(p, o, npc, ndoc, nmig) ==
    /\ pc[p] = "idle"
    /\ opsLeft[p] > 0
    /\ op' = [op EXCEPT ![p] = o]
    /\ opsLeft' = [opsLeft EXCEPT ![p] = @ - 1]
    /\ pre' = [pre EXCEPT ![p] = [mf |-> mf, cf |-> cf]]
    /\ fl' = [fl EXCEPT ![p] = {}]
    /\ overlap' = (overlap \/ \E q \in Procs \ {p} : Running(q))
    /\ Locals(p, npc, ndoc, Null, nmig, "top", NoRet)
    /\ UNCHANGED <<mf, cf, faultsLeft, hist, written>>

LoadOp == Op("load", NoArg, NoArg, NoArg, Null, FALSE)

StartLoad(p) == Start(p, LoadOp, "l_exists", Null, FALSE)

GetAllOp == Op("getAll", NoArg, NoArg, NoArg, Null, FALSE)

StartGetAll(p) == Start(p, GetAllOp, "l_exists", Null, FALSE)

\* the document is one of SaveDocs or what the load just before returned
StartSave(p) ==
    \E d \in SaveDocs \cup {hist[i].ret : i \in {j \in {Len(hist)} : j > 0 /\ hist[j].op.name = "load"}},
       m \in BOOLEAN :
        Start(p, Op("save", NoArg, NoArg, NoArg, d, m), "s_open", d, m)

StartAddPlex(p) ==
    \E k \in Ids :
        Start(p, Op("addPlex", k, NoArg, "One Piece", Null, FALSE), "l_exists", Null, FALSE)

StartAddTitle(p) ==
    \E a \in TitleArgs :
        Start(p, Op("addTitle", a[1], a[2], "Enter Naruto", Null, FALSE), "l_exists", Null, FALSE)

MigrateOp == Op("migrate", NoArg, NoArg, NoArg, Null, FALSE)

StartMigrate(p) == Start(p, MigrateOp, "l_exists", Null, FALSE)

StartGetPlexName(p) ==
    \E k \in Ids :
        Start(p, Op("getPlex", k, NoArg, NoArg, Null, FALSE), "l_exists", Null, FALSE)

\* load_mappings: os.path.exists(MAPPINGS_FILE)
LoadExists(p) ==
    /\ pc[p] = "l_exists"
    /\ Goto(p, IF mf.exists THEN "l_read" ELSE "l_config")
    /\ NoFault
    /\ UNCHANGED <<mf, cf, Ghosts>>

\* load_mappings: open, safe_load, backfill and return; any exception is
\* logged and the function goes on to the config
LoadReadMappings(p) ==
    /\ pc[p] = "l_read"
    /\ \E f \in FaultChoices :
        /\ Fault(p, f, "read")
        /\ IF f \/ ~mf.exists \/ ParseFails(mf.text) \/ LoadFileRaises(SafeLoad(mf.text))
           THEN Goto(p, "l_config")
           ELSE Locals(p, "apply", Backfill(SafeLoad(mf.text)), cfg[p], mig[p], ctx[p], ret[p])
    /\ UNCHANGED <<mf, cf, Ghosts>>

\* load_mappings: the fallback: open and parse the config, extract the three
\* sections and call save_mappings(mappings, migrate_from_config=True);
\* any exception returns the default document
LoadReadConfig(p) ==
    /\ pc[p] = "l_config"
    /\ \E f \in FaultChoices :
        /\ Fault(p, f, "read")
        /\ IF f \/ ~cf.exists \/ ParseFails(cf.text) \/ ~IsMap(SafeLoad(cf.text))
           THEN Locals(p, "apply", DefaultMappings, cfg[p], mig[p], ctx[p], ret[p])
           ELSE Locals(p, "s_open", Extract(SafeLoad(cf.text)), cfg[p], TRUE, "load", ret[p])
    /\ UNCHANGED <<mf, cf, Ghosts>>

\* save_mappings: os.makedirs and open(MAPPINGS_FILE, 'w'), which truncates
SaveOpen(p) ==
    /\ pc[p] = "s_open"
    /\ \E f \in FaultChoices :
        /\ Fault(p, f, "write")
        /\ IF f
           THEN SaveReturns(p, RetAfterWriteError) /\ UNCHANGED mf
           ELSE Goto(p, "s_dump") /\ mf' = Truncated
    /\ UNCHANGED <<cf, Ghosts>>

\* What a write through a handle opened with 'w' leaves in a file holding
\* `text`: the dump, or, when another writer wrote since the truncation, the
\* dump possibly followed by the rest of the other's text.  A failed write
\* leaves what was there or a part of the dump.
Written(text, d, f) ==
    IF f THEN {text, Garbage}
    ELSE IF text = Empty THEN {Dump(d)} ELSE {Dump(d), Garbage}

\* save_mappings: yaml.dump(mappings, file)
SaveDump(p) ==
    /\ pc[p] = "s_dump"
    /\ \E f \in FaultChoices :
        /\ Fault(p, f, "write")
        /\ \E t \in Written(mf.text, doc[p], f) : mf' = File(t)
        /\ IF f THEN SaveReturns(p, RetAfterWriteError) ELSE Goto(p, "s_migrate")
    /\ UNCHANGED <<cf, Ghosts>>

\* save_mappings: if migrate_from_config and os.path.exists(CONFIG_FILE)
SaveCheckMigrate(p) ==
    /\ pc[p] = "s_migrate"
    /\ IF mig[p] /\ cf.exists THEN Goto(p, "c_read") ELSE SaveReturns(p, TRUE)
    /\ NoFault
    /\ UNCHANGED <<mf, cf, Ghosts>>

\* save_mappings: re-read the config and delete the three sections
SaveReadConfig(p) ==
    /\ pc[p] = "c_read"
    /\ \E f \in FaultChoices :
        /\ Fault(p, f, "config")
        /\ IF f \/ ~cf.exists \/ ParseFails(cf.text) \/ ~IsMap(SafeLoad(cf.text))
           THEN SaveReturns(p, RetAfterConfigError)
           ELSE Locals(p, "c_open", doc[p], Strip(SafeLoad(cf.text)), mig[p], ctx[p], ret[p])
    /\ UNCHANGED <<mf, cf, Ghosts>>

\* save_mappings: open(CONFIG_FILE, 'w')
SaveOpenConfig(p) ==
    /\ pc[p] = "c_open"
    /\ \E f \in FaultChoices :
        /\ Fault(p, f, "config")
        /\ IF f
           THEN SaveReturns(p, RetAfterConfigError) /\ UNCHANGED cf
           ELSE Goto(p, "c_dump") /\ cf' = Truncated
    /\ UNCHANGED <<mf, Ghosts>>

\* save_mappings: yaml.dump(config, file), then return True
SaveDumpConfig(p) ==
    /\ pc[p] = "c_dump"
    /\ \E f \in FaultChoices :
        /\ Fault(p, f, "config")
        /\ \E t \in Written(cf.text, cfg[p], f) : cf' = File(t)
        /\ SaveReturns(p, IF f THEN RetAfterConfigError ELSE TRUE)
    /\ UNCHANGED <<mf, Ghosts>>

\* load_mappings and get_mappings return the document
ApplyLoad(p) ==
    /\ pc[p] = "apply"
    /\ op[p].name \in {"load", "getAll"}
    /\ Locals(p, "done", doc[p], cfg[p], mig[p], ctx[p], doc[p])
    /\ NoFault
    /\ UNCHANGED <<mf, cf, Ghosts>>

\* add_plex_mapping after its load_mappings
ApplyAddPlex(p) ==
    /\ pc[p] = "apply"
    /\ op[p].name = "addPlex"
    /\ IF PlexRaises(doc[p])
       THEN Locals(p, "done", doc[p], cfg[p], mig[p], ctx[p], False)
       ELSE Locals(p, "s_open", PlexApply(doc[p], op[p].id, op[p].val), cfg[p], FALSE, "top", ret[p])
    /\ NoFault
    /\ UNCHANGED <<mf, cf, Ghosts>>

\* add_title_mapping after its load_mappings
ApplyAddTitle(p) ==
    /\ pc[p] = "apply"
    /\ op[p].name = "addTitle"
    /\ IF TitleRaises(doc[p], op[p].id)
       THEN Locals(p, "done", doc[p], cfg[p], mig[p], ctx[p], False)
       ELSE Locals(p, "s_open", TitleApply(doc[p], op[p].id, op[p].episode, op[p].val),
                   cfg[p], FALSE, "top", ret[p])
    /\ NoFault
    /\ UNCHANGED <<mf, cf, Ghosts>>

\* migrate_mappings_from_config after its load_mappings
ApplyMigrate(p) ==
    /\ pc[p] = "apply"
    /\ op[p].name = "migrate"
    /\ Locals(p, "s_open", doc[p], cfg[p], TRUE, "top", ret[p])
    /\ NoFault
    /\ UNCHANGED <<mf, cf, Ghosts>>

\* get_plex_name after its load_mappings: nothing catches what it raises
ApplyGetPlexName(p) ==
    /\ pc[p] = "apply"
    /\ op[p].name = "getPlex"
    /\ IF GetPlexRaises(doc[p], op[p].id)
       THEN Goto(p, "raised")
       ELSE Locals(p, "done", doc[p], cfg[p], mig[p], ctx[p], GetPlexName(doc[p], op[p].id))
    /\ NoFault
    /\ UNCHANGED <<mf, cf, Ghosts>>

\* the operation is over: the caller has its result (or the exception)
Return(p) ==
    /\ pc[p] \in {"done", "raised"}
    /\ LET r     == IF pc[p] = "raised" THEN Raised ELSE ret[p]
           clean == fl[p] = {}
           rec   == [mf |-> mf, op |-> op[p], ret |-> r, clean |-> clean]
       IN  /\ hist' = IF Len(hist) = 2 THEN <<hist[2], rec>> ELSE Append(hist, rec)
           /\ written' =
                IF ~clean \/ op[p].name = "save" THEN NoWrites
                ELSE IF op[p].name = "addTitle" /\ r = True
                     THEN Put(written, <<op[p].id, op[p].episode>>, op[p].val)
                     ELSE written
    /\ Locals(p, "idle", Null, Null, FALSE, "top", ret[p])
    /\ NoFault
    /\ UNCHANGED <<mf, cf, op, pre, opsLeft, overlap>>

LoadSteps(p) == LoadExists(p) \/ LoadReadMappings(p) \/ LoadReadConfig(p)

SaveSteps(p) ==
    \/ SaveOpen(p) \/ SaveDump(p) \/ SaveCheckMigrate(p)
    \/ SaveReadConfig(p) \/ SaveOpenConfig(p) \/ SaveDumpConfig(p)

Next ==
    \E p \in Procs :
        \/ StartLoad(p) \/ StartGetAll(p) \/ StartSave(p) \/ StartAddPlex(p)
        \/ StartAddTitle(p) \/ StartMigrate(p) \/ StartGetPlexName(p)
        \/ LoadSteps(p) \/ SaveSteps(p)
        \/ ApplyLoad(p) \/ ApplyAddPlex(p) \/ ApplyAddTitle(p)
        \/ ApplyMigrate(p) \/ ApplyGetPlexName(p)
        \/ Return(p)

Spec == Init /\ [][Next]_vars

\* add_title_mapping calls and loads
NextTitle ==
    \E p \in Procs :
        \/ StartLoad(p) \/ StartAddTitle(p)
        \/ LoadSteps(p) \/ SaveSteps(p)
        \/ ApplyLoad(p) \/ ApplyAddTitle(p)
        \/ Return(p)

SpecTitle == InitTitle /\ [][NextTitle]_vars

\* save_mappings calls and loads
NextSave ==
    \E p \in Procs :
        \/ StartLoad(p) \/ StartSave(p)
        \/ LoadSteps(p) \/ SaveSteps(p)
        \/ ApplyLoad(p)
        \/ Return(p)

SpecSave == InitSave /\ [][NextSave]_vars

\* migrations: the automatic one of load_mappings and the explicit one
NextMigrate ==
    \E p \in Procs :
        \/ StartLoad(p) \/ StartMigrate(p)
        \/ LoadSteps(p) \/ SaveSteps(p)
        \/ ApplyLoad(p) \/ ApplyMigrate(p)
        \/ Return(p)

SpecMigrate == InitMigrate /\ [][NextMigrate]_vars

\* two concurrent mutations
NextConc ==
    \E p \in Procs :
        \/ StartAddPlex(p)
        \/ LoadSteps(p) \/ SaveSteps(p)
        \/ ApplyAddPlex(p)
        \/ Return(p)

SpecConc == InitConc /\ [][NextConc]_vars

(* ------------------------- reading a state ----------------------------- *)

\* the file holds a YAML dict
IsDoc(f) == f.exists /\ ~ParseFails(f.text) /\ IsMap(SafeLoad(f.text))

\* the dict a file holds; no entries when it holds none
FileDoc(f) == IF IsDoc(f) THEN SafeLoad(f.text) ELSE EmptyMap

\* d[section][k] is v
HasEntry(d, section, k, v) ==
    /\ IsMap(d) /\ HasKey(d, section)
    /\ IsMap(d.m[section]) /\ HasKey(d.m[section], k)
    /\ d.m[section].m[k] = v

\* the (section, key, value) entries of the three sections of a dict
SectionEntries(d) ==
    UNION {{<<sec, k, d.m[sec].m[k]>> : k \in DOMAIN d.m[sec].m} :
              sec \in {x \in Sections \cap DOMAIN d.m : IsMap(d.m[x])}}

\* d["title_mappings"][show]["special_matches"][ep] is title
HasTitle(d, show, ep, title) ==
    /\ IsMap(d) /\ HasKey(d, "title_mappings")
    /\ IsMap(d.m["title_mappings"]) /\ HasKey(d.m["title_mappings"], show)
    /\ HasEntry(d.m["title_mappings"].m[show], "special_matches", ep, Str(title))

\* all three sections present and dicts
IsValidDoc(d) == IsMap(d) /\ \A sec \in Sections : HasKey(d, sec) /\ IsMap(d.m[sec])

Finished(p, name) == pc[p] = "done" /\ op[p].name = name

\* no I/O failure was injected into the operation p runs
Clean(p) == fl[p] = {}

Last == hist[Len(hist)]

(* ------------------------------ claims --------------------------------- *)

\* C1: whatever the two files hold, the document load() returns has the
\* three sections, each of them a (non-null) mapping.
C1_LoadReturnsThreeMappings ==
    \A p \in Procs : Finished(p, "load") => IsValidDoc(ret[p])

\* C2: no public operation ends in an exception that reaches its caller:
\* each returns a boolean, a document or a string.
C2_NoExceptionReachesCaller ==
    \A p \in Procs :
        /\ pc[p] # "raised"
        /\ pc[p] = "done" => ret[p].t \in {"bool", "map", "str"}

\* C3: after migrateFromConfig() without I/O failure, from any mappings file
\* and a config with a `mappings` section M and other keys: the mappings
\* file's `mappings` holds every entry of M, the config has none of the three
\* sections, and every other key of the config is as before.
C3_MigrateMovesConfigMappings ==
    \A p \in Procs :
        (/\ Finished(p, "migrate") /\ Clean(p)
         /\ IsDoc(pre[p].cf)
         /\ HasKey(FileDoc(pre[p].cf), "mappings")
         /\ IsMap(FileDoc(pre[p].cf).m["mappings"]))
        => LET c0 == FileDoc(pre[p].cf)
               M  == c0.m["mappings"].m
           IN  /\ \A k \in DOMAIN M : HasEntry(FileDoc(mf), "mappings", k, M[k])
               /\ IsDoc(cf)
               /\ DOMAIN FileDoc(cf).m \cap Sections = {}
               /\ \A k \in DOMAIN c0.m \ Sections :
                      HasKey(FileDoc(cf), k) /\ FileDoc(cf).m[k] = c0.m[k]

\* C4: addPlexMapping(id, name) without I/O failure, then load(): the
\* document has mappings[id] = name, and every other entry of the three
\* sections that a load() just before the call returned is still there.
C4_AddPlexThenLoad ==
    \A p \in Procs :
        (/\ Finished(p, "load") /\ Clean(p)
         /\ Len(hist) >= 1 /\ Last.op.name = "addPlex" /\ Last.clean)
        => /\ HasEntry(ret[p], "mappings", Last.op.id, Str(Last.op.val))
           /\ (Len(hist) = 2 /\ hist[1].op.name = "load" /\ hist[1].clean)
              => \A e \in SectionEntries(hist[1].ret) :
                     (e[1] = "mappings" /\ e[2] = Last.op.id)
                     \/ HasEntry(ret[p], e[1], e[2], e[3])

\* C5: after any sequence of addTitleMapping calls (and loads) without I/O
\* failure, load() returns every (episode -> title) pair the calls wrote, for
\* every show: a later call removes or changes no earlier entry.
C5_TitleEntriesKept ==
    \A p \in Procs :
        (Finished(p, "load") /\ Clean(p))
        => \A key \in DOMAIN written : HasTitle(ret[p], key[1], key[2], written[key])

C5_TwoEpisodesReturned ==
    \E p \in Procs :
        /\ Finished(p, "load") /\ Clean(p)
        /\ {<<"Naruto", "Ep 1">>, <<"Naruto", "Ep 2">>} \subseteq DOMAIN written
        /\ HasTitle(ret[p], "Naruto", "Ep 1", "Enter Naruto")
        /\ HasTitle(ret[p], "Naruto", "Ep 2", "Enter Naruto")

\* C6: on a stored document whose title_mappings, or whose entry for the
\* show, is missing or null or lacks special_matches (or has it null),
\* addTitleMapping(show, e, t) without I/O failure leaves
\* title_mappings[show].special_matches a mapping holding e -> t, and the
\* operation after it (other than a save of the caller's own document)
\* leaves it a mapping.
C6_FirstTitleWriteBackfills ==
    \A p \in Procs :
        /\ (Finished(p, "addTitle") /\ Clean(p) /\ IsDoc(pre[p].mf))
           => HasTitle(FileDoc(mf), op[p].id, op[p].episode, op[p].val)
        /\ (/\ pc[p] = "done" /\ Clean(p) /\ op[p].name # "save"
            /\ Len(hist) >= 1 /\ Last.op.name = "addTitle" /\ Last.clean
            /\ IsDoc(Last.mf))
           => LET tm == FileDoc(mf).m["title_mappings"]
              IN  /\ IsMap(tm) /\ HasKey(tm, Last.op.id)
                  /\ IsMap(tm.m[Last.op.id])
                  /\ HasKey(tm.m[Last.op.id], "special_matches")
                  /\ IsMap(tm.m[Last.op.id].m["special_matches"])

\* C7: save(D) of a valid document D, then load(), then save of what load()
\* returned, all without I/O failure: the mappings file is what save(D) left.
C7_SaveLoadSaveFixedPoint ==
    \A p \in Procs :
        (/\ Finished(p, "save") /\ Clean(p)
         /\ Len(hist) = 2
         /\ hist[1].op.name = "save" /\ hist[1].clean /\ IsValidDoc(hist[1].op.arg)
         /\ hist[2].op.name = "load" /\ hist[2].clean
         /\ op[p].arg = hist[2].ret)
        => /\ mf = hist[1].mf
           /\ SafeLoad(mf.text) = hist[1].op.arg

C7_SavedLoadedSaved ==
    \E p \in Procs :
        /\ Finished(p, "save") /\ Clean(p)
        /\ Len(hist) = 2
        /\ hist[1].op.name = "save" /\ hist[1].clean /\ hist[1].op.arg = FullDoc
        /\ hist[2].op.name = "load" /\ hist[2].clean
        /\ op[p].arg = hist[2].ret
        /\ mf = FullFile

\* C8: save(doc, migrate) returns false exactly when creating the directory
\* or writing the mappings file failed, and then the config is as it was;
\* when that write succeeded it returns true, whatever happened to the
\* config.
C8_SaveResult ==
    \A p \in Procs :
        Finished(p, "save")
        => /\ ret[p] \in {True, False}
           /\ ret[p] = False <=> "write" \in fl[p]
           /\ "write" \in fl[p] => cf = pre[p].cf
           /\ "write" \notin fl[p] => mf = File(Dump(op[p].arg))

\* the write succeeded, a migration was asked for and the config could not
\* be updated: an injected failure, or a config that parses to None
C8_TrueThoughConfigFailed ==
    \E p \in Procs :
        /\ Finished(p, "save") /\ op[p].migrate /\ ret[p] = True
        /\ \/ "config" \in fl[p]
           \/ cf = Truncated /\ pre[p].cf = Truncated

\* C9: two addPlexMapping calls with different ids that both returned true:
\* when one ran after the other the mappings file holds both entries; when
\* they overlapped it may hold only one of them (and holds at least one,
\* unless the two writes overlaid each other into unparseable text).
C9_BothOnlyWhenSequential ==
    (/\ Len(hist) = 2
     /\ \A i \in {1, 2} : hist[i].op.name = "addPlex" /\ hist[i].ret = True /\ hist[i].clean
     /\ hist[1].op.id # hist[2].op.id
     /\ \A p \in Procs : pc[p] = "idle")
    => LET has(i) == HasEntry(FileDoc(mf), "mappings", hist[i].op.id, Str(hist[i].op.val))
       IN  /\ ~overlap => has(1) /\ has(2)
           /\ mf.text # Garbage => has(1) \/ has(2)

\* a lost update: both returned true, the file holds one entry only
C9_LostUpdate ==
    /\ Len(hist) = 2
    /\ \A i \in {1, 2} : hist[i].op.name = "addPlex" /\ hist[i].ret = True
    /\ hist[1].op.id # hist[2].op.id
    /\ \A p \in Procs : pc[p] = "idle"
    /\ overlap
    /\ IsDoc(mf)
    /\ \E i \in {1, 2} :
          /\ HasEntry(FileDoc(mf), "mappings", hist[i].op.id, Str(hist[i].op.val))
          /\ ~HasKey(FileDoc(mf).m["mappings"], hist[3 - i].op.id)

\* the mapping entries the config held when p's operation started are each
\* in one of the two files
EntriesKept(p) ==
    SectionEntries(FileDoc(pre[p].cf))
        \subseteq SectionEntries(FileDoc(mf)) \cup SectionEntries(FileDoc(cf))

MigratingFromConfig(p) ==
    /\ op[p].name \in {"load", "migrate"}
    /\ pc[p] # "idle"
    /\ ~pre[p].mf.exists

\* C10: from an absent mappings file, at every point of a migration
\* (load()'s or migrateFromConfig()'s), a stop between two file writes
\* included, every mapping entry the config held is in at least one of the
\* two files.
C10_EntriesInOneFileThroughout ==
    \A p \in Procs : MigratingFromConfig(p) => EntriesKept(p)

====
